---- MODULE Spec2Model ----
(***************************************************************************)
(* The voice-visual query session of src/src/app.jsx (component App).      *)
(*                                                                         *)
(* The component is a set of event handlers over React state, refs and the *)
(* browser's engines.  Every handler is a function from the program state  *)
(* (the record S) to the program state; an action applies one handler and  *)
(* then commits the render that follows it (Commit: state updates of an    *)
(* unmounted component are dropped, the effects whose dependencies changed *)
(* are re-run).  A closure created by a render keeps the values of that    *)
(* render (Closure); a handler reads React state through its closure and   *)
(* refs and engines directly.                                              *)
(***************************************************************************)
EXTENDS Integers, Sequences, FiniteSets, TLC

\* ------------------------------------------------------------- bounds
MaxCalls == 2          \* speak() calls whose callback is counted
MaxCancelled == 2      \* cancelled utterances whose event is not yet delivered
MaxDetached == 1       \* replaced recognisers that still owe events
MaxRestartTimers == 1  \* pending 500 ms auto-restart timers
MaxStreams == 2        \* streams with running tracks
MaxPendingMedia == 1   \* getUserMedia requests in flight
MaxFetches == 1        \* vision queries in flight
MaxPermQueries == 1    \* permission queries in flight
MaxInputs == 3         \* inputs to a session whose inputs are bounded

\* ------------------------------------------------------------- texts
\* A text is a sequence of tokens; " " is the whitespace token, a fixed
\* message of the program is one token, a dynamic text is spelled out.
Null == <<>>
SP == " "

MsgNotSupported == <<"Speech recognition is not supported in this browser. Please try Chrome or Edge.">>
MsgMicRequired == <<"Microphone permission is required to ask questions. Please allow access.">>
MsgCameraFirst == <<"Please turn on the camera first.">>
MsgListening == <<"I'm listening. Please ask your question about what I see.">>
MsgCannotStart == <<"Unable to start voice recognition. Please try again.">>
MsgCameraNotActive == <<"Camera is not active. Please turn on the camera first.">>
MsgCaptureFailed == <<"Unable to capture image. Please ensure the camera is working.">>
MsgGenericFailure == <<"Sorry, I encountered an error analyzing the image. Please try again.">>
MsgNoKey == <<"OpenAI API key is not configured. Please check your environment variables.">>
MsgInvalidResponse == <<"Invalid response from AI service">>
MsgDidntCatch == <<"I didn't catch that clearly. Please try asking your question again.">>
MsgCameraStopped == <<"Camera stopped.">>
MsgCameraStarted == <<"Camera started. You can now ask questions about what I see.">>
MsgSwitchFailed == <<"Unable to switch camera. Please try again.">>
MsgMicDenied == <<"Microphone access denied. Please allow microphone permissions and try again.">>
MsgNoSpeech == <<"No speech detected. Please try speaking more clearly.">>
MsgNoMicrophone == <<"No microphone found. Please check your microphone.">>
MsgNetwork == <<"Network error. Please check your internet connection.">>
MsgRecognitionFailed == <<"Speech recognition failed. Please try again.">>

RECURSIVE TrimStart(_)
TrimStart(t) == IF t # <<>> /\ Head(t) = SP THEN TrimStart(Tail(t)) ELSE t

RECURSIVE TrimEnd(_)
TrimEnd(t) ==
    IF t # <<>> /\ t[Len(t)] = SP THEN TrimEnd(SubSeq(t, 1, Len(t) - 1)) ELSE t

\* String.prototype.trim
Trim(t) == TrimEnd(TrimStart(t))

\* String.prototype.length: the characters of all the tokens
RECURSIVE Length(_)
Length(t) == IF t = <<>> THEN 0 ELSE Len(Head(t)) + Length(Tail(t))

MsgHeard(transcript) ==
    <<"I heard: ">> \o transcript \o <<". Let me analyze what I can see.">>

MsgSwitched(mode) ==
    <<"Switched to ", IF mode = "user" THEN "front" ELSE "back", " camera.">>

MsgModeSet(mode) ==
    <<"Camera mode set to ", IF mode = "user" THEN "front" ELSE "back", " camera.">>

MsgApiFailed(status, detail) == <<"API request failed: ", status, " - ">> \o detail

\* ------------------------------------------------------------- state
VARIABLES
    \* React state of App
    isListening, isCameraActive, assistantResponse, cameraMode, mediaStream,
    isProcessing, capturedImage, isSpeaking, speechEnabled, currentQuestion,
    error, isVoicesLoaded, microphonePermission, currentPage,
    \* refs: the recogniser, whether utteranceRef holds an utterance (it is
    \* never read), the pending speech timer
    recognitionRef, utteranceRef, speechTimeoutRef,
    \* the component and its page: the stream bound to the video element,
    \* the element's readyState (0..4) and videoWidth
    mounted, videoSrc, readyState, videoWidth, announceTimer,
    \* text-to-speech engine (window.speechSynthesis)
    synthQueue, synthSpeaking, synthCancelled, voices,
    \* speech-to-text engine
    detached, restartTimers,
    \* permissions, media devices, network
    permission, permQueries, permSubscribed,
    liveStreams, streamFacing, pendingMedia, pendingFetch,
    \* what the browser and the build provide
    hasSpeechRecognition, hasSpeechSynthesis, hasGetUserMedia, apiKey,
    \* whether canvas.getContext('2d') gives a context
    canvasContext,
    \* observation: for each counted speak() call how often its callback ran
    \* (-1: not called yet), the calls whose utterance reached the engine,
    \* and what the last handler did
    fired, handed, fx,
    \* how many inputs (requests of the user, results and errors of the
    \* recogniser) the session has taken, where a specification bounds them
    inputs

vars == <<isListening, isCameraActive, assistantResponse, cameraMode, mediaStream,
          isProcessing, capturedImage, isSpeaking, speechEnabled, currentQuestion,
          error, isVoicesLoaded, microphonePermission, currentPage,
          recognitionRef, utteranceRef, speechTimeoutRef,
          mounted, videoSrc, readyState, videoWidth, announceTimer,
          synthQueue, synthSpeaking, synthCancelled, voices,
          detached, restartTimers,
          permission, permQueries, permSubscribed,
          liveStreams, streamFacing, pendingMedia, pendingFetch,
          hasSpeechRecognition, hasSpeechSynthesis, hasGetUserMedia, apiKey,
          canvasContext,
          fired, handed, fx, inputs>>

\* The program state as one record.
S ==
    [isListening |-> isListening, isCameraActive |-> isCameraActive,
     assistantResponse |-> assistantResponse, cameraMode |-> cameraMode,
     mediaStream |-> mediaStream, isProcessing |-> isProcessing,
     capturedImage |-> capturedImage, isSpeaking |-> isSpeaking,
     speechEnabled |-> speechEnabled, currentQuestion |-> currentQuestion,
     error |-> error, isVoicesLoaded |-> isVoicesLoaded,
     microphonePermission |-> microphonePermission, currentPage |-> currentPage,
     recognitionRef |-> recognitionRef, utteranceRef |-> utteranceRef,
     speechTimeoutRef |-> speechTimeoutRef,
     mounted |-> mounted, videoSrc |-> videoSrc, readyState |-> readyState,
     videoWidth |-> videoWidth,
     announceTimer |-> announceTimer,
     synthQueue |-> synthQueue, synthSpeaking |-> synthSpeaking,
     synthCancelled |-> synthCancelled, voices |-> voices,
     detached |-> detached, restartTimers |-> restartTimers,
     permission |-> permission, permQueries |-> permQueries,
     permSubscribed |-> permSubscribed,
     liveStreams |-> liveStreams, streamFacing |-> streamFacing,
     pendingMedia |-> pendingMedia, pendingFetch |-> pendingFetch,
     hasSpeechRecognition |-> hasSpeechRecognition,
     hasSpeechSynthesis |-> hasSpeechSynthesis,
     hasGetUserMedia |-> hasGetUserMedia, apiKey |-> apiKey,
     canvasContext |-> canvasContext,
     fired |-> fired, handed |-> handed, fx |-> {}, inputs |-> inputs]

\* The values of React state a render's closures keep.
Closure(s) ==
    [isListening |-> s.isListening, isCameraActive |-> s.isCameraActive,
     error |-> s.error, microphonePermission |-> s.microphonePermission,
     speechEnabled |-> s.speechEnabled, isVoicesLoaded |-> s.isVoicesLoaded,
     isSpeaking |-> s.isSpeaking, cameraMode |-> s.cameraMode,
     currentPage |-> s.currentPage, mediaStream |-> s.mediaStream]

\* The closure of the first render (useState initial values).
InitialClosure ==
    [isListening |-> FALSE, isCameraActive |-> FALSE, error |-> Null,
     microphonePermission |-> "null", speechEnabled |-> TRUE,
     isVoicesLoaded |-> FALSE, isSpeaking |-> FALSE,
     cameraMode |-> "environment", currentPage |-> "home", mediaStream |-> 0]

\* A closure keeps a whole render, but only the values its code reads can
\* matter, so a stored closure holds only those.
\* speak reads speechEnabled, microphonePermission, isVoicesLoaded and (in
\* its watchdog) isSpeaking.
SpeakEnv(c) ==
    [speechEnabled |-> c.speechEnabled,
     microphonePermission |-> c.microphonePermission,
     isVoicesLoaded |-> c.isVoicesLoaded,
     isSpeaking |-> c.isSpeaking]

\* attemptSpeak reads isVoicesLoaded and isSpeaking.
TimerEnv(c) == [isVoicesLoaded |-> c.isVoicesLoaded, isSpeaking |-> c.isSpeaking]

\* the prompt callback reads isListening and calls speak
PromptEnv(c) ==
    [speechEnabled |-> c.speechEnabled,
     microphonePermission |-> c.microphonePermission,
     isVoicesLoaded |-> c.isVoicesLoaded,
     isSpeaking |-> c.isSpeaking,
     isListening |-> c.isListening]

\* the recogniser's handlers read error (only whether it is set: !error),
\* isCameraActive and microphonePermission and call speak and processQuestion
RecognitionEnv(c) ==
    [speechEnabled |-> c.speechEnabled,
     microphonePermission |-> c.microphonePermission,
     isVoicesLoaded |-> c.isVoicesLoaded,
     isSpeaking |-> c.isSpeaking,
     error |-> (c.error # Null),
     isCameraActive |-> c.isCameraActive]

\* processQuestion reads isCameraActive and calls speak
QuestionEnv(c) ==
    [speechEnabled |-> c.speechEnabled,
     microphonePermission |-> c.microphonePermission,
     isVoicesLoaded |-> c.isVoicesLoaded,
     isSpeaking |-> c.isSpeaking,
     isCameraActive |-> c.isCameraActive]

\* toggleCamera after its await reads currentPage and calls speak
ToggleEnv(c) ==
    [speechEnabled |-> c.speechEnabled,
     microphonePermission |-> c.microphonePermission,
     isVoicesLoaded |-> c.isVoicesLoaded,
     isSpeaking |-> c.isSpeaking,
     currentPage |-> c.currentPage]

\* switchCamera after its await reads cameraMode and calls speak
SwitchEnv(c) ==
    [speechEnabled |-> c.speechEnabled,
     microphonePermission |-> c.microphonePermission,
     isVoicesLoaded |-> c.isVoicesLoaded,
     isSpeaking |-> c.isSpeaking,
     cameraMode |-> c.cameraMode]

\* a closure nothing is read from
NoEnv == [speechEnabled |-> TRUE]

\* A handler's observable effect during one step.
Fx(s, tag, text) == [s EXCEPT !.fx = @ \cup {[tag |-> tag, text |-> text]}]

Did(tag) == \E e \in fx : e.tag = tag

\* ------------------------------------------------------------- shapes
\* A completion callback handed to speak(): its kind, the closure it was
\* created in and its argument.
\*   counted  a caller's callback, counted in fired[id]
\*   prompt   startListening's callback (lines 459-471)
\*   ack      onresult's callback (lines 602-604), arg = the transcript
NoCallback == [kind |-> "none", id |-> 0, c |-> NoEnv, arg |-> Null]

Callback(kind, id, c, arg) == [kind |-> kind, id |-> id, c |-> c, arg |-> arg]

NoTimer == [kind |-> "none", text |-> Null, cb |-> NoCallback, c |-> NoEnv, delay |-> 0]

NoRecognition == [state |-> "absent", c |-> NoEnv]

Modes == {"user", "environment"}

Opposite(mode) == IF mode = "user" THEN "environment" ELSE "user"

\* ------------------------------------------------------------- speech output
\* stopSpeaking that forgets speechSynthesis.cancel()
stopSpeakingNoCancel(s) ==
    IF ~s.hasSpeechSynthesis
    THEN s
    ELSE [s EXCEPT !.speechTimeoutRef = NoTimer,
                   !.isSpeaking = FALSE,
                   !.utteranceRef = FALSE]

\* stopSpeaking that forgets the clearTimeout of lines 360-362
stopSpeakingKeepsTimer(s) ==
    IF ~s.hasSpeechSynthesis
    THEN s
    ELSE LET s1 == IF s.synthSpeaking \/ s.synthQueue # <<>>
                   THEN [s EXCEPT !.synthCancelled = @ \o s.synthQueue,
                                  !.synthQueue = <<>>,
                                  !.synthSpeaking = FALSE]
                   ELSE s
         IN  [s1 EXCEPT !.isSpeaking = FALSE,
                        !.utteranceRef = FALSE]

\* stopSpeaking (lines 355-368).  speechSynthesis.cancel() removes every
\* utterance from the engine's queue; each removed utterance is owed an error
\* event (interrupted / canceled), delivered later in order.
stopSpeaking(s) ==
    IF ~s.hasSpeechSynthesis
    THEN s
    ELSE LET s1 == IF s.synthSpeaking \/ s.synthQueue # <<>>
                   THEN [s EXCEPT !.synthCancelled = @ \o s.synthQueue,
                                  !.synthQueue = <<>>,
                                  !.synthSpeaking = FALSE]
                   ELSE s
         IN  [s1 EXCEPT !.speechTimeoutRef = NoTimer,
                        !.isSpeaking = FALSE,
                        !.utteranceRef = FALSE]

\* the delay of the watchdog without its floor
watchdogDelayNoFloor(text) == Length(text) * 100

\* the delay of the watchdog in milliseconds (line 340)
watchdogDelay(text) ==
    IF Length(text) * 100 > 5000 THEN Length(text) * 100 ELSE 5000

\* attemptSpeak (lines 275-341), in the closure c of the speak() that made it.
attemptSpeak(s, c, text, cb) ==
    IF ~s.voices /\ ~c.isVoicesLoaded
    THEN [s EXCEPT !.speechTimeoutRef =
                       [kind |-> "retry", text |-> text, cb |-> cb, c |-> TimerEnv(c),
                        delay |-> 100]]
    ELSE LET u == [text |-> Trim(text), cb |-> cb]
         IN  [s EXCEPT !.utteranceRef = TRUE,
                       !.synthQueue = Append(@, u),
                       !.handed = IF cb.kind = "counted" THEN @ \cup {cb.id} ELSE @,
                       !.speechTimeoutRef =
                           [kind |-> "watchdog", text |-> text,
                            cb |-> NoCallback, c |-> TimerEnv(c),
                            delay |-> watchdogDelay(text)]]

\* speak() does not produce audio (lines 261-266)
Suppressed(s, c, text) ==
    \/ ~c.speechEnabled
    \/ ~s.hasSpeechSynthesis
    \/ Trim(text) = <<>>
    \/ c.microphonePermission # "granted"

\* HTMLMediaElement.readyState: 0 HAVE_NOTHING, 1 HAVE_METADATA,
\* 2 HAVE_CURRENT_DATA, 3 HAVE_FUTURE_DATA, 4 HAVE_ENOUGH_DATA
ReadyStates == 0..4

Widths == {0, 640}

\* captureImage that draws without asking whether the element has a frame
\* (line 180)
captureImageAnyFrame(s) ==
    IF s.currentPage # "camera" THEN 0
    ELSE IF ~s.canvasContext THEN 0
    ELSE s.videoSrc

\* canvas.toDataURL of the current frame, 0 for null (lines 174-190).  The
\* video and canvas elements exist on the camera page only (lines 1066-1073).
captureImage(s) ==
    IF s.currentPage # "camera" THEN 0
    ELSE IF s.readyState < 2 \/ s.videoWidth = 0 THEN 0
    ELSE IF ~s.canvasContext THEN 0
    ELSE s.videoSrc

\* SpeechRecognition.start(): throws unless the recogniser is idle.
CanStart(s) == s.recognitionRef.state = "idle"

recognitionStart(s) ==
    Fx([s EXCEPT !.recognitionRef.state = "started"], "start", Null)

\* SpeechRecognition.stop() on a recogniser.
Stopped(r) ==
    IF r.state \in {"started", "listening"} THEN [r EXCEPT !.state = "stopping"] ELSE r

RECURSIVE speak(_, _, _, _)
RECURSIVE invokeCallback(_, _)
RECURSIVE processQuestion(_, _, _)

\* speak (lines 260-353)
speak(s, c, text, cb) ==
    LET s0 == Fx(s, "speak", text)
    IN  IF Suppressed(s0, c, text)
        THEN invokeCallback(s0, cb)
        ELSE attemptSpeak(stopSpeaking(s0), c, text, cb)

\* the body of a completion callback
invokeCallback(s, cb) ==
    CASE cb.kind = "counted" ->
            [s EXCEPT !.fired[cb.id] = IF @ < 2 THEN @ + 1 ELSE @]
      [] cb.kind = "prompt" ->
            IF s.recognitionRef.state # "absent" /\ ~cb.c.isListening
            THEN IF CanStart(s)
                 THEN recognitionStart(s)
                 ELSE LET s1 == Fx([s EXCEPT !.error = MsgCannotStart], "start", Null)
                          s2 == speak(s1, cb.c, MsgCannotStart, NoCallback)
                      IN  [s2 EXCEPT !.isProcessing = FALSE]
            ELSE s
      [] cb.kind = "ack" -> processQuestion(s, cb.c, cb.arg)
      [] OTHER -> s

\* processQuestion up to its await, without the setIsProcessing(false) of
\* lines 388 and 398
processQuestionKeepsProcessing(s, c, question) ==
    IF ~c.isCameraActive
    THEN speak(Fx([s EXCEPT !.error = MsgCameraNotActive], "no-frame", question), c,
               MsgCameraNotActive, NoCallback)
    ELSE LET img == captureImage(s)
             s0 == Fx(s, "capture", question)
         IN  IF img = 0
             THEN speak(Fx([s0 EXCEPT !.error = MsgCaptureFailed], "no-frame", question),
                        c, MsgCaptureFailed, NoCallback)
             ELSE LET s1 == Fx([s0 EXCEPT !.capturedImage = img], "query", question)
                  IN  IF ~s1.apiKey
                      THEN LET s2 == speak([s1 EXCEPT !.error = MsgNoKey,
                                                      !.assistantResponse = MsgNoKey],
                                           c, MsgNoKey, NoCallback)
                           IN  [s2 EXCEPT !.isProcessing = FALSE]
                      ELSE [s1 EXCEPT !.pendingFetch = Append(@,
                               [question |-> question, image |-> img,
                                c |-> SpeakEnv(c)])]

\* processQuestion up to its await (lines 383-406); the rest is FetchSettled
processQuestion(s, c, question) ==
    IF ~c.isCameraActive
    THEN LET s1 == speak(Fx([s EXCEPT !.error = MsgCameraNotActive],
                            "no-frame", question),
                         c, MsgCameraNotActive, NoCallback)
         IN  [s1 EXCEPT !.isProcessing = FALSE]
    ELSE LET img == captureImage(s)
             s0 == Fx(s, "capture", question)
         IN  IF img = 0
             THEN LET s1 == speak(Fx([s0 EXCEPT !.error = MsgCaptureFailed],
                                     "no-frame", question),
                                  c, MsgCaptureFailed, NoCallback)
                  IN  [s1 EXCEPT !.isProcessing = FALSE]
             ELSE LET s1 == Fx([s0 EXCEPT !.capturedImage = img], "query", question)
                  IN  IF ~s1.apiKey
                      THEN LET s2 == speak([s1 EXCEPT !.error = MsgNoKey,
                                                      !.assistantResponse = MsgNoKey],
                                           c, MsgNoKey, NoCallback)
                           IN  [s2 EXCEPT !.isProcessing = FALSE]
                      ELSE [s1 EXCEPT !.pendingFetch = Append(@,
                               [question |-> question, image |-> img,
                                c |-> SpeakEnv(c)])]

\* ------------------------------------------------------------- rendering
AnnounceHome == <<"Home page. Turn on the camera and click Ask Question to get visual assistance.">>
AnnounceCameraOn == <<"Camera page. Camera is active and ready for questions.">>
AnnounceCameraOff == <<"Camera page. Click Start Camera to begin.">>

\* announcements[currentPage] (lines 699-706)
Announcement(s) ==
    IF s.currentPage = "home" THEN AnnounceHome
    ELSE IF s.isCameraActive THEN AnnounceCameraOn ELSE AnnounceCameraOff

\* A state update of an unmounted component is dropped.
KeepReactState(old, new) ==
    [new EXCEPT !.isListening = old.isListening,
                !.isCameraActive = old.isCameraActive,
                !.assistantResponse = old.assistantResponse,
                !.cameraMode = old.cameraMode,
                !.mediaStream = old.mediaStream,
                !.isProcessing = old.isProcessing,
                !.capturedImage = old.capturedImage,
                !.isSpeaking = old.isSpeaking,
                !.speechEnabled = old.speechEnabled,
                !.currentQuestion = old.currentQuestion,
                !.error = old.error,
                !.isVoicesLoaded = old.isVoicesLoaded,
                !.microphonePermission = old.microphonePermission,
                !.currentPage = old.currentPage]

\* checkMicrophonePermission up to its await (lines 370-372); the rest is
\* PermissionQuerySettles.  Queries in flight beyond MaxPermQueries are not
\* told apart.
checkMicrophonePermission(s) ==
    [s EXCEPT !.permQueries = IF @ < MaxPermQueries THEN @ + 1 ELSE @]

\* The recognition effect (lines 576-674): the cleanup of the previous run
\* stops the recogniser in the ref, then a new recogniser is created whose
\* handlers close over this render.  A replaced recogniser that is not idle
\* still delivers its events to its own handlers.
recognitionEffect(s) ==
    IF ~s.hasSpeechRecognition
    THEN s
    ELSE LET old == Stopped(s.recognitionRef)
             s1 == [s EXCEPT !.detached = IF old.state = "idle" THEN @ ELSE Append(@, old),
                             !.recognitionRef = [state |-> "idle",
                                                 c |-> RecognitionEnv(Closure(s))]]
         IN  checkMicrophonePermission(s1)

\* The page announcement effect (lines 696-713)
announceEffect(s) ==
    [s EXCEPT !.announceTimer =
        IF s.speechEnabled
        THEN [kind |-> "announce", text |-> Announcement(s),
              cb |-> NoCallback, c |-> SpeakEnv(Closure(s)), delay |-> 800]
        ELSE NoTimer]

\* The video element lives on the camera page; leaving the page unmounts it.
videoElement(old, s) ==
    IF s.currentPage # old.currentPage
    THEN [s EXCEPT !.videoSrc = 0, !.readyState = 0, !.videoWidth = 0]
    ELSE s

\* The render after a handler: `old` is the state before the handler, `new`
\* the state it left.
Commit(old, new) ==
    IF ~old.mounted
    THEN KeepReactState(old, new)
    ELSE IF ~new.mounted
    THEN new
    ELSE LET s1 == videoElement(old, new)
             s2 == IF \/ s1.isCameraActive # old.isCameraActive
                      \/ s1.error # old.error
                      \/ s1.microphonePermission # old.microphonePermission
                   THEN recognitionEffect(s1)
                   ELSE s1
         IN  IF \/ s2.currentPage # old.currentPage
                \/ s2.speechEnabled # old.speechEnabled
                \/ s2.isCameraActive # old.isCameraActive
             THEN announceEffect(s2)
             ELSE s2

\* A stream is named by a number; the state mediaStream and the video element
\* may each still hold a stream whose tracks are stopped.
StreamIds == 1..(MaxStreams + 2)

WithinBounds(s) ==
    /\ Len(s.synthCancelled) <= MaxCancelled
    /\ Len(s.detached) <= MaxDetached
    /\ s.restartTimers <= MaxRestartTimers
    /\ Cardinality(s.liveStreams) <= MaxStreams
    /\ Len(s.pendingMedia) <= MaxPendingMedia
    /\ Len(s.pendingFetch) <= MaxFetches
    /\ s.inputs <= MaxInputs

\* The step that runs a handler leaving state r, and the render after it.
Apply(r) ==
    \E n \in {Commit(S, r)} :
        /\ WithinBounds(n)
        /\ isListening' = n.isListening
        /\ isCameraActive' = n.isCameraActive
        /\ assistantResponse' = n.assistantResponse
        /\ cameraMode' = n.cameraMode
        /\ mediaStream' = n.mediaStream
        /\ isProcessing' = n.isProcessing
        /\ capturedImage' = n.capturedImage
        /\ isSpeaking' = n.isSpeaking
        /\ speechEnabled' = n.speechEnabled
        /\ currentQuestion' = n.currentQuestion
        /\ error' = n.error
        /\ isVoicesLoaded' = n.isVoicesLoaded
        /\ microphonePermission' = n.microphonePermission
        /\ currentPage' = n.currentPage
        /\ recognitionRef' = n.recognitionRef
        /\ utteranceRef' = n.utteranceRef
        /\ speechTimeoutRef' = n.speechTimeoutRef
        /\ mounted' = n.mounted
        /\ videoSrc' = n.videoSrc
        /\ readyState' = n.readyState
        /\ videoWidth' = n.videoWidth
        /\ announceTimer' = n.announceTimer
        /\ synthQueue' = n.synthQueue
        /\ synthSpeaking' = n.synthSpeaking
        /\ synthCancelled' = n.synthCancelled
        /\ voices' = n.voices
        /\ detached' = n.detached
        /\ restartTimers' = n.restartTimers
        /\ permission' = n.permission
        /\ permQueries' = n.permQueries
        /\ permSubscribed' = n.permSubscribed
        /\ liveStreams' = n.liveStreams
        /\ streamFacing' = n.streamFacing
        /\ pendingMedia' = n.pendingMedia
        /\ pendingFetch' = n.pendingFetch
        /\ hasSpeechRecognition' = n.hasSpeechRecognition
        /\ hasSpeechSynthesis' = n.hasSpeechSynthesis
        /\ hasGetUserMedia' = n.hasGetUserMedia
        /\ apiKey' = n.apiKey
        /\ canvasContext' = n.canvasContext
        /\ fired' = n.fired
        /\ handed' = n.handed
        /\ inputs' = n.inputs
        /\ fx' = n.fx

\* ------------------------------------------------------------- initial state
\* The component after its first render and mount effects: a recogniser
\* exists (if supported) and a permission query is in flight (lines 666-667),
\* loadVoices has run (line 686), the home page announcement is scheduled.
Mounted(recog, synth, media, key, perm, v) ==
    [isListening |-> FALSE,
     isCameraActive |-> FALSE,
     assistantResponse |-> Null,
     cameraMode |-> "environment",
     mediaStream |-> 0,
     isProcessing |-> FALSE,
     capturedImage |-> 0,
     isSpeaking |-> FALSE,
     speechEnabled |-> TRUE,
     currentQuestion |-> Null,
     error |-> Null,
     isVoicesLoaded |-> (synth /\ v),
     microphonePermission |-> "null",
     currentPage |-> "home",
     recognitionRef |-> IF recog THEN [state |-> "idle",
                                      c |-> RecognitionEnv(InitialClosure)]
                                ELSE NoRecognition,
     utteranceRef |-> FALSE,
     speechTimeoutRef |-> NoTimer,
     mounted |-> TRUE,
     videoSrc |-> 0,
     readyState |-> 0,
     videoWidth |-> 0,
     announceTimer |-> [kind |-> "announce", text |-> AnnounceHome,
                        cb |-> NoCallback, c |-> SpeakEnv(InitialClosure),
                        delay |-> 800],
     synthQueue |-> <<>>,
     synthSpeaking |-> FALSE,
     synthCancelled |-> <<>>,
     voices |-> v,
     detached |-> <<>>,
     restartTimers |-> 0,
     permission |-> perm,
     permQueries |-> IF recog THEN 1 ELSE 0,
     permSubscribed |-> FALSE,
     liveStreams |-> {},
     streamFacing |-> [i \in StreamIds |-> "environment"],
     pendingMedia |-> <<>>,
     pendingFetch |-> <<>>,
     hasSpeechRecognition |-> recog,
     hasSpeechSynthesis |-> synth,
     hasGetUserMedia |-> media,
     apiKey |-> key,
     canvasContext |-> TRUE,
     fired |-> [i \in 1..MaxCalls |-> -1],
     handed |-> {},
     fx |-> {},
     inputs |-> 0]

\* The session the happy path starts from: the camera page is open, the
\* camera runs and the video shows its frames, the microphone permission is
\* Granted, and every announcement has been spoken (SpecBoot reaches it).
Ready(key) ==
    LET m == Mounted(TRUE, TRUE, TRUE, key, "granted", TRUE)
        r == [m EXCEPT !.isCameraActive = TRUE,
                       !.mediaStream = 1,
                       !.liveStreams = {1},
                       !.currentPage = "camera",
                       !.videoSrc = 1,
                       !.readyState = 4,
                       !.videoWidth = 640,
                       !.microphonePermission = "granted",
                       !.permQueries = 0,
                       !.permSubscribed = TRUE,
                       !.announceTimer = NoTimer]
    IN  [r EXCEPT !.recognitionRef = [state |-> "idle",
                                      c |-> RecognitionEnv(Closure(r))]]

\* the variables take the values of the record r
Start(r) ==
    /\ isListening = r.isListening
    /\ isCameraActive = r.isCameraActive
    /\ assistantResponse = r.assistantResponse
    /\ cameraMode = r.cameraMode
    /\ mediaStream = r.mediaStream
    /\ isProcessing = r.isProcessing
    /\ capturedImage = r.capturedImage
    /\ isSpeaking = r.isSpeaking
    /\ speechEnabled = r.speechEnabled
    /\ currentQuestion = r.currentQuestion
    /\ error = r.error
    /\ isVoicesLoaded = r.isVoicesLoaded
    /\ microphonePermission = r.microphonePermission
    /\ currentPage = r.currentPage
    /\ recognitionRef = r.recognitionRef
    /\ utteranceRef = r.utteranceRef
    /\ speechTimeoutRef = r.speechTimeoutRef
    /\ mounted = r.mounted
    /\ videoSrc = r.videoSrc
    /\ readyState = r.readyState
    /\ videoWidth = r.videoWidth
    /\ announceTimer = r.announceTimer
    /\ synthQueue = r.synthQueue
    /\ synthSpeaking = r.synthSpeaking
    /\ synthCancelled = r.synthCancelled
    /\ voices = r.voices
    /\ detached = r.detached
    /\ restartTimers = r.restartTimers
    /\ permission = r.permission
    /\ permQueries = r.permQueries
    /\ permSubscribed = r.permSubscribed
    /\ liveStreams = r.liveStreams
    /\ streamFacing = r.streamFacing
    /\ pendingMedia = r.pendingMedia
    /\ pendingFetch = r.pendingFetch
    /\ hasSpeechRecognition = r.hasSpeechRecognition
    /\ hasSpeechSynthesis = r.hasSpeechSynthesis
    /\ hasGetUserMedia = r.hasGetUserMedia
    /\ apiKey = r.apiKey
    /\ canvasContext = r.canvasContext
    /\ fired = r.fired
    /\ handed = r.handed
    /\ inputs = r.inputs
    /\ fx = r.fx

\* ------------------------------------------------------------- the turn
\* startListening without the camera guard of lines 439-444
startListeningAnyCamera(s) ==
    LET c == Closure(s)
    IN  IF ~s.hasSpeechRecognition
        THEN speak([s EXCEPT !.error = MsgNotSupported], c, MsgNotSupported, NoCallback)
        ELSE IF c.microphonePermission # "granted"
        THEN speak([s EXCEPT !.error = MsgMicRequired], c, MsgMicRequired, NoCallback)
        ELSE IF c.isListening \/ s.isProcessing
        THEN [s EXCEPT !.recognitionRef = Stopped(@),
                                         !.isProcessing = FALSE]
        ELSE speak([s EXCEPT !.isProcessing = TRUE,
                             !.currentQuestion = Null,
                             !.assistantResponse = Null,
                             !.error = Null],
                   c, MsgListening, Callback("prompt", 0, PromptEnv(c), Null))

\* startListening without the permission guard of lines 432-437
startListeningAnyPermission(s) ==
    LET c == Closure(s)
    IN  IF ~s.hasSpeechRecognition
        THEN speak([s EXCEPT !.error = MsgNotSupported], c, MsgNotSupported, NoCallback)
        ELSE IF ~c.isCameraActive
        THEN speak([s EXCEPT !.error = MsgCameraFirst], c, MsgCameraFirst, NoCallback)
        ELSE IF c.isListening \/ s.isProcessing
        THEN [s EXCEPT !.recognitionRef = Stopped(@),
                                         !.isProcessing = FALSE]
        ELSE speak([s EXCEPT !.isProcessing = TRUE,
                             !.currentQuestion = Null,
                             !.assistantResponse = Null,
                             !.error = Null],
                   c, MsgListening, Callback("prompt", 0, PromptEnv(c), Null))

\* startListening with the camera guard (lines 439-444) ahead of the
\* permission guard (lines 432-437)
startListeningCameraFirst(s) ==
    LET c == Closure(s)
    IN  IF ~s.hasSpeechRecognition
        THEN speak([s EXCEPT !.error = MsgNotSupported], c, MsgNotSupported, NoCallback)
        ELSE IF ~c.isCameraActive
        THEN speak([s EXCEPT !.error = MsgCameraFirst], c, MsgCameraFirst, NoCallback)
        ELSE IF c.microphonePermission # "granted"
        THEN speak([s EXCEPT !.error = MsgMicRequired], c, MsgMicRequired, NoCallback)
        ELSE IF c.isListening \/ s.isProcessing
        THEN [s EXCEPT !.recognitionRef = Stopped(@),
                                         !.isProcessing = FALSE]
        ELSE speak([s EXCEPT !.isProcessing = TRUE,
                             !.currentQuestion = Null,
                             !.assistantResponse = Null,
                             !.error = Null],
                   c, MsgListening, Callback("prompt", 0, PromptEnv(c), Null))

\* startListening whose stop branch also clears the question and the answer
startListeningClearsTurn(s) ==
    LET c == Closure(s)
    IN  IF ~s.hasSpeechRecognition
        THEN speak([s EXCEPT !.error = MsgNotSupported], c, MsgNotSupported, NoCallback)
        ELSE IF c.microphonePermission # "granted"
        THEN speak([s EXCEPT !.error = MsgMicRequired], c, MsgMicRequired, NoCallback)
        ELSE IF ~c.isCameraActive
        THEN speak([s EXCEPT !.error = MsgCameraFirst], c, MsgCameraFirst, NoCallback)
        ELSE IF c.isListening \/ s.isProcessing
        THEN [s EXCEPT !.recognitionRef = Stopped(@),
                       !.isProcessing = FALSE,
                       !.currentQuestion = Null,
                       !.assistantResponse = Null]
        ELSE speak([s EXCEPT !.isProcessing = TRUE,
                             !.currentQuestion = Null,
                             !.assistantResponse = Null,
                             !.error = Null],
                   c, MsgListening, Callback("prompt", 0, PromptEnv(c), Null))

\* startListening (lines 424-472), invoked from the current render
startListening(s) ==
    LET c == Closure(s)
    IN  IF ~s.hasSpeechRecognition
        THEN speak([s EXCEPT !.error = MsgNotSupported], c, MsgNotSupported, NoCallback)
        ELSE IF c.microphonePermission # "granted"
        THEN speak([s EXCEPT !.error = MsgMicRequired], c, MsgMicRequired, NoCallback)
        ELSE IF ~c.isCameraActive
        THEN speak([s EXCEPT !.error = MsgCameraFirst], c, MsgCameraFirst, NoCallback)
        ELSE IF c.isListening \/ s.isProcessing
        THEN [s EXCEPT !.recognitionRef = Stopped(@),
                                         !.isProcessing = FALSE]
        ELSE speak([s EXCEPT !.isProcessing = TRUE,
                             !.currentQuestion = Null,
                             !.assistantResponse = Null,
                             !.error = Null],
                   c, MsgListening, Callback("prompt", 0, PromptEnv(c), Null))

\* recognition.onstart (lines 587-591)
onstart(s) == [s EXCEPT !.isListening = TRUE, !.error = Null]

\* the test of line 600 without its length half
AcceptedAnyLength(transcript) == transcript # <<>>

\* transcript.length > 2 on the trimmed transcript (line 600)
Accepted(transcript) == transcript # <<>> /\ Len(transcript) > 2

\* onresult running processQuestion at once, beside the acknowledgement
onresultEager(s, c, raw) ==
    LET transcript == Trim(raw)
        s0 == Fx(s, "result", raw)
    IN  IF Accepted(transcript)
        THEN processQuestion(speak([s0 EXCEPT !.currentQuestion = transcript], c,
                                   MsgHeard(transcript), NoCallback),
                             QuestionEnv(c), transcript)
        ELSE [speak(s0, c, MsgDidntCatch, NoCallback) EXCEPT !.isProcessing = FALSE]

\* recognition.onresult (lines 593-609), c the closure of the recogniser
onresult(s, c, raw) ==
    LET transcript == Trim(raw)
        s0 == Fx(s, "result", raw)
    IN  IF Accepted(transcript)
        THEN speak([s0 EXCEPT !.currentQuestion = transcript], c,
                   MsgHeard(transcript), Callback("ack", 0, QuestionEnv(c), transcript))
        ELSE [speak(s0, c, MsgDidntCatch, NoCallback) EXCEPT !.isProcessing = FALSE]

\* the condition under which onend schedules a restart (line 614)
RestartWanted(c) ==
    ~c.error /\ c.isCameraActive /\ c.microphonePermission = "granted"

\* recognition.onend (lines 611-625); `failed` tells whether this attempt
\* raised onerror before it ended
onend(s, c, failed) ==
    LET s1 == [s EXCEPT !.isListening = FALSE]
    IN  IF RestartWanted(c)
        THEN Fx([s1 EXCEPT !.restartTimers = @ + 1],
                IF failed THEN "restart-after-error" ELSE "restart", Null)
        ELSE s1

\* the 500 ms timer of onend (lines 615-623)
restartTimer(s) ==
    LET s1 == [s EXCEPT !.restartTimers = @ - 1]
    IN  IF s1.recognitionRef.state = "absent" THEN s1
        ELSE IF CanStart(s1) THEN Fx(recognitionStart(s1), "auto-start", Null)
        ELSE Fx(Fx(s1, "start", Null), "auto-start", Null)

ErrorCodes ==
    {"not-allowed", "service-not-allowed", "no-speech", "audio-capture",
     "network", "aborted", "language-not-supported"}

ErrorMessage(code) ==
    CASE code \in {"not-allowed", "service-not-allowed"} -> MsgMicDenied
      [] code = "no-speech" -> MsgNoSpeech
      [] code = "audio-capture" -> MsgNoMicrophone
      [] code = "network" -> MsgNetwork
      [] code = "aborted" -> Null
      [] OTHER -> MsgRecognitionFailed

ShouldSpeak(code) == code \notin {"no-speech", "aborted"}

\* onerror without the setMicrophonePermission('denied') of line 638
onerrorKeepsPermission(s, c, code) ==
    LET s2 == Fx([s EXCEPT !.isListening = FALSE], "recognition-error", <<code>>)
        s3 == IF ErrorMessage(code) # Null
              THEN LET s4 == [s2 EXCEPT !.error = ErrorMessage(code)]
                   IN  IF ShouldSpeak(code)
                       THEN speak(s4, c, ErrorMessage(code), NoCallback)
                       ELSE s4
              ELSE s2
    IN  [s3 EXCEPT !.isProcessing = FALSE]

\* onerror that speaks every message it records, shouldSpeak or not
onerrorSpeaksAlways(s, c, code) ==
    LET s1 == Fx([s EXCEPT !.isListening = FALSE], "recognition-error", <<code>>)
        s2 == IF code \in {"not-allowed", "service-not-allowed"}
              THEN [s1 EXCEPT !.microphonePermission = "denied"]
              ELSE s1
        s3 == IF ErrorMessage(code) # Null
              THEN speak([s2 EXCEPT !.error = ErrorMessage(code)], c,
                         ErrorMessage(code), NoCallback)
              ELSE s2
    IN  [s3 EXCEPT !.isProcessing = FALSE]

\* recognition.onerror (lines 627-664)
onerror(s, c, code) ==
    LET s1 == Fx([s EXCEPT !.isListening = FALSE], "recognition-error", <<code>>)
        s2 == IF code \in {"not-allowed", "service-not-allowed"}
              THEN [s1 EXCEPT !.microphonePermission = "denied"]
              ELSE s1
        s3 == IF ErrorMessage(code) # Null
              THEN LET s4 == [s2 EXCEPT !.error = ErrorMessage(code)]
                   IN  IF ShouldSpeak(code)
                       THEN speak(s4, c, ErrorMessage(code), NoCallback)
                       ELSE s4
              ELSE s2
    IN  [s3 EXCEPT !.isProcessing = FALSE]

\* ------------------------------------------------------------- vision query
Answers == {<<"A red mug on a wooden table.">>, <<"A door.">>}

\* What the network gives back to fetch(): a rejection with a message, or a
\* response with a status and a body (json = FALSE: the body is not JSON).
Responses ==
    {[reject |-> TRUE, message |-> m, status |-> "0", statusText |-> Null,
      json |-> FALSE, errorMessage |-> Null, content |-> Null] :
        m \in {<<"Failed to fetch">>, Null}}
    \cup
    {[reject |-> FALSE, message |-> Null, status |-> "500",
      statusText |-> <<"Internal Server Error">>,
      json |-> j, errorMessage |-> e, content |-> Null] :
        j \in BOOLEAN, e \in {Null, <<"The server is overloaded.">>}}
    \cup
    {[reject |-> FALSE, message |-> Null, status |-> "200", statusText |-> <<"OK">>,
      json |-> j, errorMessage |-> Null, content |-> a] :
        j \in BOOLEAN, a \in Answers \cup {Null}}

MsgNotJson == <<"Unexpected token < in JSON">>

\* analyzeImageWithOpenAI after its fetch (lines 240-257): the text it
\* returns, or the message of the Error it throws
analyzeImageWithOpenAI(resp) ==
    IF resp.reject
    THEN [ok |-> FALSE, text |-> resp.message]
    ELSE IF resp.status # "200"
    THEN IF ~resp.json
         THEN [ok |-> FALSE, text |-> MsgNotJson]
         ELSE [ok |-> FALSE,
               text |-> MsgApiFailed(resp.status,
                            IF resp.errorMessage # Null THEN resp.errorMessage
                                                        ELSE resp.statusText)]
    ELSE IF ~resp.json
    THEN [ok |-> FALSE, text |-> MsgNotJson]
    ELSE IF resp.content # Null
    THEN [ok |-> TRUE, text |-> resp.content]
    ELSE [ok |-> FALSE, text |-> MsgInvalidResponse]

\* error.message || '...' (line 415)
FailureMessage(result) == IF result.text # Null THEN result.text ELSE MsgGenericFailure

\* a network error or a non-2xx response
Transport(resp) == resp.reject \/ resp.status # "200"

\* how the query ended: with an answer, a transport failure or a response
\* that is not the expected one
Outcome(resp, result) ==
    IF result.ok THEN "answer"
    ELSE IF Transport(resp) THEN "transport" ELSE "malformed"

\* what fetch() got from the network, as observed: the status of the
\* response and, when its body is JSON, the error text and the answer in it
Received(s, resp) ==
    IF resp.reject THEN Fx(s, "rejected", resp.message)
    ELSE LET s1 == Fx(s, "status", <<resp.status>>)
         IN  IF resp.json
             THEN Fx(Fx(s1, "upstream-error", resp.errorMessage),
                     "upstream-answer", resp.content)
             ELSE s1

\* processQuestion after its await, without the finally of lines 419-421
fetchSettledNoFinally(s, c, resp) ==
    LET result == analyzeImageWithOpenAI(resp)
        s0 == Fx(Received(s, resp), Outcome(resp, result), result.text)
    IN  IF result.ok
        THEN speak([s0 EXCEPT !.assistantResponse = result.text,
                              !.error = Null],
                   c, result.text, NoCallback)
        ELSE speak([s0 EXCEPT !.error = FailureMessage(result),
                              !.assistantResponse = FailureMessage(result)],
                   c, FailureMessage(result), NoCallback)

\* processQuestion after its await, its catch recording the message and
\* speaking the generic text
fetchSettledSpeaksGeneric(s, c, resp) ==
    LET result == analyzeImageWithOpenAI(resp)
        s0 == Fx(Received(s, resp), Outcome(resp, result), result.text)
        s1 == IF result.ok
              THEN speak([s0 EXCEPT !.assistantResponse = result.text,
                                    !.error = Null],
                         c, result.text, NoCallback)
              ELSE speak([s0 EXCEPT !.error = FailureMessage(result),
                                    !.assistantResponse = FailureMessage(result)],
                         c, MsgGenericFailure, NoCallback)
    IN  [s1 EXCEPT !.isProcessing = FALSE]

\* processQuestion after its await, sending the request again when it failed
fetchSettledRetries(s, c, resp) ==
    LET result == analyzeImageWithOpenAI(resp)
        s0 == Fx(Received(s, resp), Outcome(resp, result), result.text)
    IN  IF result.ok
        THEN [speak([s0 EXCEPT !.assistantResponse = result.text,
                               !.error = Null],
                    c, result.text, NoCallback) EXCEPT !.isProcessing = FALSE]
        ELSE [s0 EXCEPT !.pendingFetch = Append(@,
                 [question |-> s0.currentQuestion, image |-> s0.capturedImage,
                  c |-> c])]

\* processQuestion after its await (lines 406-421), c its closure
fetchSettled(s, c, resp) ==
    LET result == analyzeImageWithOpenAI(resp)
        s0 == Fx(Received(s, resp), Outcome(resp, result), result.text)
        s1 == IF result.ok
              THEN speak([s0 EXCEPT !.assistantResponse = result.text,
                                    !.error = Null],
                         c, result.text, NoCallback)
              ELSE speak([s0 EXCEPT !.error = FailureMessage(result),
                                    !.assistantResponse = FailureMessage(result)],
                         c, FailureMessage(result), NoCallback)
    IN  [s1 EXCEPT !.isProcessing = FALSE]

\* ------------------------------------------------------------- camera
MediaErrors == {"NotAllowedError", "NotFoundError", "NotReadableError", "OverconstrainedError"}

\* the message of toggleCamera's catch (lines 521-531); "TypeError" stands
\* for the Error thrown when getUserMedia does not exist (line 490)
CameraErrorMessage(name) ==
    <<"Unable to access camera. ",
      CASE name = "NotAllowedError" -> "Please allow camera permissions and try again."
        [] name = "NotFoundError" -> "No camera found on this device."
        [] name = "NotReadableError" -> "Camera is being used by another application."
        [] OTHER -> "Please check your camera settings and try again.">>

\* track.stop() on every track of a stream
stopTracks(s, stream) == [s EXCEPT !.liveStreams = @ \ {stream}]

\* videoRef.current.srcObject = stream, when the video element exists
bindVideo(s, stream) ==
    IF s.currentPage = "camera"
    THEN [s EXCEPT !.videoSrc = stream, !.readyState = 0, !.videoWidth = 0]
    ELSE s

\* the name of a stream not held by anyone
FreeStreams(s) == StreamIds \ (s.liveStreams \cup {s.mediaStream, s.videoSrc})

\* getUserMedia resolved: a new stream with running tracks
acquire(s, stream, mode) ==
    [s EXCEPT !.liveStreams = @ \cup {stream}, !.streamFacing[stream] = mode]

\* toggleCamera's catch speaking the message without recording it
toggleCameraFailedUnrecorded(s, c, name) ==
    speak(Fx(s, "camera-error", <<name>>), c, CameraErrorMessage(name), NoCallback)

\* toggleCamera's catch (lines 517-535)
toggleCameraFailed(s, c, name) ==
    speak(Fx([s EXCEPT !.error = CameraErrorMessage(name)], "camera-error", <<name>>),
          c, CameraErrorMessage(name), NoCallback)

\* toggleCamera up to its await (lines 474-502)
toggleCamera(s) ==
    LET c == Closure(s)
    IN  IF c.isCameraActive
        THEN LET s1 == IF c.mediaStream # 0 THEN stopTracks(s, c.mediaStream) ELSE s
                 s2 == bindVideo([s1 EXCEPT !.isCameraActive = FALSE], 0)
             IN  speak([s2 EXCEPT !.mediaStream = 0,
                                  !.capturedImage = 0,
                                  !.error = Null],
                       c, MsgCameraStopped, NoCallback)
        ELSE IF ~s.hasGetUserMedia
        THEN toggleCameraFailed(s, c, "TypeError")
        ELSE [s EXCEPT !.pendingMedia = Append(@,
                 [op |-> "toggle", mode |-> c.cameraMode, c |-> ToggleEnv(c)])]

\* toggleCamera after its await (lines 504-535)
toggleCameraSettled(s, req, ok, stream, name) ==
    IF ok
    THEN LET s1 == bindVideo(acquire(s, stream, req.mode), stream)
             s2 == speak([s1 EXCEPT !.mediaStream = stream,
                                    !.isCameraActive = TRUE,
                                    !.error = Null],
                         req.c, MsgCameraStarted, NoCallback)
         IN  IF req.c.currentPage # "camera"
             THEN [s2 EXCEPT !.currentPage = "camera"]
             ELSE s2
    ELSE toggleCameraFailed(s, req.c, name)

\* switchCamera's catch (lines 565-569)
switchCameraFailed(s, c) ==
    [speak(s, c, MsgSwitchFailed, NoCallback) EXCEPT !.cameraMode = c.cameraMode]

\* switchCamera up to its await (lines 539-556)
switchCamera(s) ==
    LET c == Closure(s)
        newMode == Opposite(c.cameraMode)
        s1 == [s EXCEPT !.cameraMode = newMode]
    IN  IF c.isCameraActive /\ c.mediaStream # 0
        THEN LET s2 == stopTracks(s1, c.mediaStream)
             IN  IF ~s.hasGetUserMedia
                 THEN switchCameraFailed(s2, c)
                 ELSE [s2 EXCEPT !.pendingMedia = Append(@,
                          [op |-> "switch", mode |-> newMode, c |-> SwitchEnv(c)])]
        ELSE speak(s1, c, MsgModeSet(newMode), NoCallback)

\* switchCamera after its await (lines 556-569)
switchCameraSettled(s, req, ok, stream) ==
    IF ok
    THEN LET s1 == bindVideo(acquire(s, stream, req.mode), stream)
         IN  speak([s1 EXCEPT !.mediaStream = stream], req.c,
                   MsgSwitched(req.mode), NoCallback)
    ELSE switchCameraFailed(s, req.c)

\* ------------------------------------------------------------- teardown
\* The effect cleanups at unmount, in order: the recognition effect's (lines
\* 669-673), the announcement timer's (line 712), and the cleanup lines
\* 716-727, whose closure is that of the first render.
unmount(s) ==
    LET s1 == [s EXCEPT !.recognitionRef = Stopped(@), !.announceTimer = NoTimer]
        s2 == stopSpeaking(s1)
        s3 == [s2 EXCEPT !.speechTimeoutRef = NoTimer]
        s4 == IF InitialClosure.mediaStream # 0
              THEN stopTracks(s3, InitialClosure.mediaStream)
              ELSE s3
    IN  [s4 EXCEPT !.recognitionRef = Stopped(@),
                   !.mounted = FALSE,
                   !.videoSrc = 0,
                   !.readyState = 0,
                   !.videoWidth = 0]

\* ------------------------------------------------------------- actions
RemoveAt(q, i) == SubSeq(q, 1, i - 1) \o SubSeq(q, i + 1, Len(q))

Min(set) == CHOOSE x \in set : \A y \in set : x <= y

\* the state with one more input taken: a request of the user for the
\* camera or the microphone, a result or an error of the recogniser, a change
\* of the permission by the platform
Taken(s) == [s EXCEPT !.inputs = @ + 1]

\* --- the user
StartListening == mounted /\ Apply(startListening(Taken(S)))

ToggleCamera == mounted /\ Apply(toggleCamera(Taken(S)))

SwitchCamera == mounted /\ Apply(switchCamera(Taken(S)))

\* the stop button of the speaking indicator (lines 892, 1583)
StopSpeaking == mounted /\ Apply(Fx(stopSpeaking(S), "stop", Null))

\* the repeat button (line 900)
RepeatResponse ==
    /\ mounted
    /\ assistantResponse # Null
    /\ Apply(speak(S, Closure(S), assistantResponse, NoCallback))

\* the speech switch (lines 1017, 1329)
ToggleSpeech == mounted /\ Apply([S EXCEPT !.speechEnabled = ~@])

Pages == {"home", "camera"}

\* navigation (line 785)
Navigate ==
    /\ mounted
    /\ \E p \in Pages \ {currentPage} : Apply([S EXCEPT !.currentPage = p])

Unmount == mounted /\ Apply(unmount(S))

\* --- a caller of speak(text, cb) whose callback is counted
ClientTexts == {<<"Audio test successful.">>, <<SP, SP>>}

ClientSpeak ==
    /\ mounted
    /\ \E id \in 1..MaxCalls :
         /\ fired[id] = -1
         /\ \A j \in 1..(id - 1) : fired[j] # -1
         /\ \E text \in ClientTexts :
            \E c \in {SpeakEnv(Closure(S)), SpeakEnv(recognitionRef.c)} :
               Apply(speak([S EXCEPT !.fired[id] = 0], c, text,
                           Callback("counted", id, NoEnv, Null)))

\* --- the text-to-speech engine
\* utterance.onend (lines 310-317) and utterance.onerror (lines 319-330)
utteranceDone(s, u) ==
    invokeCallback([s EXCEPT !.isSpeaking = FALSE, !.utteranceRef = FALSE], u.cb)

\* utterance.onstart (lines 305-308); events are delivered in order, so an
\* utterance starts after the events of those cancelled before it
SynthStart ==
    /\ synthQueue # <<>>
    /\ ~synthSpeaking
    /\ synthCancelled = <<>>
    /\ Apply([S EXCEPT !.synthSpeaking = TRUE, !.isSpeaking = TRUE])

SynthEnd ==
    /\ synthSpeaking
    /\ Apply(utteranceDone([S EXCEPT !.synthQueue = Tail(@), !.synthSpeaking = FALSE],
                           Head(synthQueue)))

SynthError ==
    /\ synthQueue # <<>>
    /\ synthCancelled = <<>>
    /\ Apply(utteranceDone([S EXCEPT !.synthQueue = Tail(@), !.synthSpeaking = FALSE],
                           Head(synthQueue)))

SynthCancelled ==
    /\ synthCancelled # <<>>
    /\ Apply(utteranceDone([S EXCEPT !.synthCancelled = Tail(@)],
                           Head(synthCancelled)))

\* onvoiceschanged -> loadVoices (lines 678-690)
VoicesChanged ==
    /\ hasSpeechSynthesis
    /\ ~voices
    /\ Apply([S EXCEPT !.voices = TRUE, !.isVoicesLoaded = TRUE])

\* --- timers
RetryTimer ==
    /\ speechTimeoutRef.kind = "retry"
    /\ Apply(attemptSpeak([S EXCEPT !.speechTimeoutRef = NoTimer],
                          speechTimeoutRef.c, speechTimeoutRef.text, speechTimeoutRef.cb))

\* the watchdog (lines 334-340)
watchdog(s, c) ==
    IF c.isSpeaking
    THEN [s EXCEPT !.isSpeaking = FALSE, !.utteranceRef = FALSE]
    ELSE s

WatchdogTimer ==
    /\ speechTimeoutRef.kind = "watchdog"
    /\ Apply(watchdog([S EXCEPT !.speechTimeoutRef = NoTimer],
                      speechTimeoutRef.c))

AnnounceTimer ==
    /\ announceTimer.kind = "announce"
    /\ Apply(speak([S EXCEPT !.announceTimer = NoTimer], announceTimer.c,
                   announceTimer.text, NoCallback))

RestartTimer == restartTimers > 0 /\ Apply(restartTimer(S))

\* --- the speech-to-text engine, for the recogniser in the ref
Transcripts == {<<SP, SP>>, <<SP, "h", "i", SP>>, <<"h", "e", "y">>}

RecognitionStarts ==
    /\ recognitionRef.state = "started"
    /\ Apply(onstart([S EXCEPT !.recognitionRef.state = "listening"]))

RecognitionResult ==
    /\ recognitionRef.state \in {"listening", "stopping"}
    /\ \E raw \in Transcripts :
          Apply(onresult([Taken(S) EXCEPT !.recognitionRef.state = "closing"],
                         recognitionRef.c, raw))

RecognitionError ==
    /\ recognitionRef.state \in {"started", "listening", "stopping"}
    /\ \E code \in ErrorCodes :
          Apply(onerror([Taken(S) EXCEPT !.recognitionRef.state = "failed"],
                        recognitionRef.c, code))

RecognitionEnds ==
    /\ recognitionRef.state \in {"stopping", "closing", "failed"}
    /\ Apply(onend([S EXCEPT !.recognitionRef.state = "idle"],
                   recognitionRef.c, recognitionRef.state = "failed"))

\* --- and for a recogniser the effect has replaced
DetachedResult ==
    \E i \in 1..Len(detached) :
       /\ detached[i].state = "stopping"
       /\ \E raw \in Transcripts :
             Apply(onresult([Taken(S) EXCEPT !.detached[i].state = "closing"],
                            detached[i].c, raw))

DetachedError ==
    \E i \in 1..Len(detached) :
       /\ detached[i].state = "stopping"
       /\ \E code \in ErrorCodes :
             Apply(onerror([Taken(S) EXCEPT !.detached[i].state = "failed"],
                           detached[i].c, code))

DetachedEnds ==
    \E i \in 1..Len(detached) :
       Apply(onend([S EXCEPT !.detached = RemoveAt(@, i)],
                   detached[i].c, detached[i].state = "failed"))

\* --- permissions
PermissionStates == {"granted", "denied", "prompt"}

\* checkMicrophonePermission after its await (lines 373-380)
PermissionQuerySettles ==
    /\ permQueries > 0
    /\ Apply([S EXCEPT !.permQueries = @ - 1,
                       !.microphonePermission = permission,
                       !.permSubscribed = TRUE])

\* navigator.permissions.query rejects (lines 377-380)
PermissionQueryFails ==
    /\ permQueries > 0
    /\ Apply([S EXCEPT !.permQueries = @ - 1, !.microphonePermission = "denied"])

\* the platform changes the permission; result.onchange (lines 374-376)
PermissionChanges ==
    \E p \in PermissionStates \ {permission} :
       Apply([Taken(S) EXCEPT !.permission = p,
                       !.microphonePermission = IF permSubscribed THEN p ELSE @])

\* --- media devices
MediaGranted ==
    \E i \in 1..Len(pendingMedia) :
       /\ FreeStreams(S) # {}
       /\ LET req == pendingMedia[i]
              s0 == [S EXCEPT !.pendingMedia = RemoveAt(@, i)]
              stream == Min(FreeStreams(S))
          IN  Apply(IF req.op = "toggle"
                    THEN toggleCameraSettled(s0, req, TRUE, stream, "")
                    ELSE switchCameraSettled(s0, req, TRUE, stream))

MediaRefused ==
    \E i \in 1..Len(pendingMedia) :
       \E name \in MediaErrors :
          LET req == pendingMedia[i]
              s0 == [S EXCEPT !.pendingMedia = RemoveAt(@, i)]
          IN  Apply(IF req.op = "toggle"
                    THEN toggleCameraSettled(s0, req, FALSE, 0, name)
                    ELSE switchCameraSettled(s0, req, FALSE, 0))

\* the video element loads the stream bound to it: first its metadata
\* (the dimensions), then its frames
VideoLoaded ==
    /\ videoSrc \in liveStreams
    /\ readyState < 4
    /\ Apply([S EXCEPT !.readyState = IF @ = 0 THEN 1 ELSE 4,
                       !.videoWidth = 640])

\* --- the network
FetchSettles ==
    \E i \in 1..Len(pendingFetch) :
       \E resp \in Responses :
          Apply(fetchSettled([S EXCEPT !.pendingFetch = RemoveAt(@, i)],
                             pendingFetch[i].c, resp))

Next ==
    \/ StartListening \/ ToggleCamera \/ SwitchCamera \/ StopSpeaking
    \/ RepeatResponse \/ ToggleSpeech \/ Navigate \/ Unmount
    \/ SynthStart \/ SynthEnd \/ SynthError \/ SynthCancelled \/ VoicesChanged
    \/ RetryTimer \/ WatchdogTimer \/ AnnounceTimer \/ RestartTimer
    \/ RecognitionStarts \/ RecognitionResult \/ RecognitionError \/ RecognitionEnds
    \/ DetachedResult \/ DetachedError \/ DetachedEnds
    \/ PermissionQuerySettles \/ PermissionQueryFails \/ PermissionChanges
    \/ MediaGranted \/ MediaRefused \/ VideoLoaded
    \/ FetchSettles

Init == Start(Mounted(TRUE, TRUE, TRUE, TRUE, "granted", TRUE))

Spec == Init /\ [][Next]_vars

\* ------------------------------------------------------------- speech output alone
\* AudioOutputController with any caller: speak() from the current render
\* or from the recogniser's (possibly stale) closure, the engine, the timers,
\* the permission the suppression reads, and teardown.
InitSpeech == Start(Mounted(TRUE, TRUE, TRUE, TRUE, "granted", FALSE))

NextSpeech ==
    \/ ClientSpeak \/ StopSpeaking \/ ToggleSpeech \/ Unmount
    \/ SynthStart \/ SynthEnd \/ SynthError \/ SynthCancelled \/ VoicesChanged
    \/ RetryTimer \/ WatchdogTimer \/ AnnounceTimer
    \/ PermissionQuerySettles \/ PermissionQueryFails

SpecSpeech == InitSpeech /\ [][NextSpeech]_vars

\* ------------------------------------------------------------- the turn
\* The session from mount: the user opens the camera page, starts the camera
\* and asks; the engines, the timers, the permission query and the network
\* answer.
InitTurn == Start(Ready(TRUE))

NextTurn ==
    \/ StartListening
    \/ SynthStart \/ SynthEnd \/ SynthCancelled
    \/ RestartTimer
    \/ RecognitionStarts \/ RecognitionResult \/ RecognitionError \/ RecognitionEnds
    \/ DetachedResult \/ DetachedError \/ DetachedEnds
    \/ PermissionQuerySettles
    \/ FetchSettles

SpecTurn == InitTurn /\ [][NextTurn]_vars

\* ------------------------------------------------------------- the failed attempt
\* The turn whose recogniser fails: every attempt ends with an error of the
\* engine, on the recogniser in the ref or on one the effect has replaced.
NextFailure ==
    \/ StartListening
    \/ SynthStart \/ SynthEnd \/ SynthCancelled
    \/ RestartTimer
    \/ RecognitionStarts \/ RecognitionError \/ RecognitionEnds
    \/ DetachedError \/ DetachedEnds
    \/ PermissionQuerySettles

SpecFailure == InitTurn /\ [][NextFailure]_vars

\* ------------------------------------------------------------- the query
\* The turn with or without a credential for the vision service, the
\* recogniser in the ref delivering its results.
InitQuery == \E key \in BOOLEAN : Start(Ready(key))

NextQuery ==
    \/ StartListening
    \/ SynthStart \/ SynthEnd \/ SynthCancelled
    \/ RestartTimer
    \/ RecognitionStarts \/ RecognitionResult \/ RecognitionEnds
    \/ PermissionQuerySettles
    \/ FetchSettles

SpecQuery == InitQuery /\ [][NextQuery]_vars

\* The session at the await of processQuestion (line 406): the turn begun
\* from Ready has spoken its prompt, heard "hey", spoken the acknowledgement,
\* captured the frame and sent the query (SpecQuery reaches this state).
AtAwait ==
    LET r == Ready(TRUE)
        c == Closure(r)
        q == <<"h", "e", "y">>
    IN  [r EXCEPT !.isProcessing = TRUE,
                  !.isListening = TRUE,
                  !.currentQuestion = q,
                  !.capturedImage = r.videoSrc,
                  !.recognitionRef.state = "closing",
                  !.speechTimeoutRef =
                      [kind |-> "watchdog", text |-> MsgHeard(q), cb |-> NoCallback,
                       c |-> TimerEnv(c), delay |-> watchdogDelay(MsgHeard(q))],
                  !.pendingFetch =
                      <<[question |-> q, image |-> r.videoSrc, c |-> SpeakEnv(c)]>>,
                  !.fx = {[tag |-> "capture", text |-> q], [tag |-> "query", text |-> q]}]

InitStale == Start(AtAwait)

SpecStale == InitStale /\ [][NextQuery]_vars

\* The user asks once; after that only the platform acts: the recogniser and
\* its auto-restart, the synthesiser, the vision service.
AskOnce == inputs = 0 /\ StartListening

NextOnce ==
    \/ AskOnce
    \/ SynthStart \/ SynthEnd \/ SynthCancelled
    \/ RestartTimer
    \/ RecognitionStarts \/ RecognitionResult \/ RecognitionEnds
    \/ PermissionQuerySettles
    \/ FetchSettles

SpecOnce == InitTurn /\ [][NextOnce]_vars

\* Asking again during a turn, the camera being stopped and started.
NextAgain ==
    \/ StartListening
    \/ ToggleCamera \/ MediaGranted
    \/ SynthStart \/ SynthEnd \/ SynthCancelled
    \/ RecognitionStarts \/ RecognitionResult
    \/ FetchSettles

SpecAgain == InitTurn /\ [][NextAgain]_vars

\* The steps of a turn.  The user may have switched speech off before the
\* camera was turned on, so that the recogniser made when the camera came on
\* (the effect depends on isCameraActive) closes over that setting.
InitOrder ==
    \E speech \in BOOLEAN :
        LET r == [Ready(TRUE) EXCEPT !.speechEnabled = speech]
        IN  Start([r EXCEPT !.recognitionRef.c = RecognitionEnv(Closure(r))])

NextOrder ==
    \/ StartListening
    \/ SynthStart \/ SynthEnd \/ SynthCancelled
    \/ RestartTimer
    \/ RecognitionStarts \/ RecognitionResult \/ RecognitionEnds
    \/ FetchSettles

SpecOrder == InitOrder /\ [][NextOrder]_vars

\* ------------------------------------------------------------- the session
\* The turn while the user also stops and starts the camera, the platform
\* changes the permission, the speech watchdog fires and the component is
\* torn down.
NextSession ==
    \/ StartListening
    \/ SynthStart \/ SynthEnd \/ SynthCancelled
    \/ RestartTimer
    \/ RecognitionStarts \/ RecognitionResult \/ RecognitionError \/ RecognitionEnds
    \/ DetachedResult \/ DetachedError \/ DetachedEnds
    \/ PermissionQuerySettles \/ PermissionChanges
    \/ FetchSettles
    \/ ToggleCamera \/ MediaGranted
    \/ WatchdogTimer
    \/ Unmount

SpecSession == InitTurn /\ [][NextSession]_vars

\* ------------------------------------------------------------- the frame
\* The turn while the user stops and starts the camera and the video element
\* loads the frames of a new stream: a question can be accepted while the
\* camera is off, or on with no frame yet.
NextFrame ==
    \/ StartListening
    \/ SynthStart \/ SynthEnd \/ SynthCancelled
    \/ RestartTimer
    \/ RecognitionStarts \/ RecognitionResult \/ RecognitionEnds
    \/ DetachedResult \/ DetachedEnds
    \/ PermissionQuerySettles
    \/ FetchSettles
    \/ ToggleCamera \/ MediaGranted \/ VideoLoaded

SpecFrame == InitTurn /\ [][NextFrame]_vars

\* ------------------------------------------------------------- the capture
\* captureImage over the states of its sinks: the session is ready, the
\* video element has loaded any part of its stream (an element without
\* data has no dimensions), the canvas gives a context or not; the user asks
\* questions, leaves and re-enters the camera page (which removes and
\* re-creates the elements), and stops and restarts the camera.
InitCapture ==
    \E rs \in ReadyStates, w \in Widths, ctx \in BOOLEAN :
        /\ rs = 0 => w = 0
        /\ Start([Ready(TRUE) EXCEPT !.readyState = rs,
                                     !.videoWidth = w,
                                     !.canvasContext = ctx])

NextCapture ==
    \/ StartListening
    \/ SynthStart \/ SynthEnd \/ SynthCancelled
    \/ RecognitionStarts \/ RecognitionResult
    \/ FetchSettles
    \/ Navigate \/ VideoLoaded
    \/ ToggleCamera \/ MediaGranted

SpecCapture == InitCapture /\ [][NextCapture]_vars

\* ------------------------------------------------------------- the gate
\* The preconditions of a turn, from mount: the user asks with the camera on
\* or off, before and after the permission query has settled, while the
\* platform grants and revokes the microphone.
NextGate ==
    \/ StartListening \/ ToggleCamera \/ MediaGranted
    \/ PermissionQuerySettles \/ PermissionQueryFails \/ PermissionChanges
    \/ AnnounceTimer \/ SynthStart \/ SynthEnd \/ SynthCancelled
    \/ RecognitionStarts \/ RecognitionEnds \/ DetachedEnds \/ RestartTimer

SpecGate == Init /\ [][NextGate]_vars

\* ------------------------------------------------------------- the preconditions
\* The preconditions of a turn on a browser with or without speech
\* recognition, from mount: the user asks with the camera on or off, before
\* and after the permission query has settled, while the platform grants
\* and revokes the microphone.
InitSupport ==
    \E recog \in BOOLEAN : Start(Mounted(recog, TRUE, TRUE, TRUE, "granted", TRUE))

NextSupport ==
    \/ StartListening \/ ToggleCamera \/ MediaGranted
    \/ PermissionQuerySettles \/ PermissionQueryFails \/ PermissionChanges
    \/ AnnounceTimer \/ SynthStart \/ SynthEnd \/ SynthCancelled

SpecSupport == InitSupport /\ [][NextSupport]_vars

\* ------------------------------------------------------------- the camera
\* CaptureController from mount, on a platform that has not granted the
\* microphone (so that every speak() is suppressed): start, stop, switch,
\* navigation and teardown, with getUserMedia resolving or rejecting.
InitCamera == Start(Mounted(TRUE, TRUE, TRUE, TRUE, "prompt", TRUE))

NextCamera ==
    \/ ToggleCamera \/ SwitchCamera \/ Navigate \/ Unmount
    \/ MediaGranted \/ MediaRefused \/ VideoLoaded
    \/ PermissionQuerySettles \/ PermissionQueryFails
    \/ AnnounceTimer

SpecCamera == InitCamera /\ [][NextCamera]_vars

\* The camera running: stops, starts and switches with their acquisitions.
NextStreams ==
    \/ ToggleCamera \/ SwitchCamera
    \/ MediaGranted \/ MediaRefused \/ VideoLoaded
    \/ SynthStart \/ SynthEnd \/ SynthCancelled

SpecStreams == InitTurn /\ [][NextStreams]_vars

\* Starting and stopping the camera, on a platform with or without
\* getUserMedia.
InitStart == \E media \in BOOLEAN : Start(Mounted(TRUE, TRUE, media, TRUE, "granted", TRUE))

NextStart ==
    \/ ToggleCamera \/ Navigate
    \/ MediaGranted \/ MediaRefused \/ VideoLoaded
    \/ PermissionQuerySettles
    \/ SynthStart \/ SynthEnd \/ SynthCancelled

SpecStart == InitStart /\ [][NextStart]_vars

\* ============================================================= claims
CountedIn(q) == {q[i].cb.id : i \in {j \in 1..Len(q) : q[j].cb.kind = "counted"}}

\* the counted calls whose callback something still holds and can invoke
Owed ==
    CountedIn(synthQueue) \cup CountedIn(synthCancelled)
    \cup (IF speechTimeoutRef.kind = "retry" /\ speechTimeoutRef.cb.kind = "counted"
          THEN {speechTimeoutRef.cb.id} ELSE {})

Called == {id \in 1..MaxCalls : fired[id] # -1}

\* C1: the callback of every speak(text, cb) call runs exactly once: it never
\* runs twice, and a call whose callback has not run yet is still held by
\* the engine (queued, speaking or cancelled with its event pending) or by the
\* retry timer, so that it can still run.
C1_CallbackExactlyOnce ==
    \A id \in Called : fired[id] <= 1 /\ (fired[id] = 0 => id \in Owed)

\* C1, the half that holds: no callback runs twice
C1_NeverTwice == \A id \in Called : fired[id] <= 1

Spoke(text) == [tag |-> "speak", text |-> text] \in fx

Acks(q) == {q[i].cb : i \in {j \in 1..Len(q) : q[j].cb.kind = "ack"}}

\* C5: no frame is captured and no query made for a transcript of trimmed
\* length 2 or less, which is answered by the re-prompt; a transcript of
\* trimmed length 3 or more becomes the current question and is acknowledged.
C5_ShortTranscriptNeverQueried ==
    /\ \A e \in fx : e.tag \in {"capture", "query"} => Len(e.text) >= 3
    /\ \A cb \in Acks(synthQueue) \cup Acks(synthCancelled) : Len(cb.arg) >= 3
    /\ \A i \in 1..Len(pendingFetch) : Len(pendingFetch[i].question) >= 3
    /\ \A e \in fx : e.tag = "result" =>
          IF Len(Trim(e.text)) <= 2
          THEN Spoke(MsgDidntCatch) /\ ~Did("capture") /\ ~Did("query") /\ ~isProcessing
          ELSE currentQuestion = Trim(e.text) /\ Spoke(MsgHeard(Trim(e.text)))

\* C5's case: the recogniser has delivered " hi ", of length 4 and trimmed
\* length 2
C5_Witness == [tag |-> "result", text |-> <<SP, "h", "i", SP>>] \in fx

\* C6: when the query of a turn returns the answer A, the answer is recorded
\* as the last response and spoken, the error is cleared and the processing
\* flag is reset.
C6_HappyPath ==
    \A e \in fx : e.tag = "answer" =>
        /\ assistantResponse = e.text
        /\ Spoke(e.text)
        /\ error = Null
        /\ ~isProcessing

\* C6's case: the query has returned "A red mug on a wooden table."
C6_Witness ==
    /\ [tag |-> "answer", text |-> <<"A red mug on a wooden table.">>] \in fx
    /\ microphonePermission = "granted"
    /\ isCameraActive

C8_SwitchFailureKeepsOneLive ==
    (Spoke(MsgSwitchFailed) /\ mounted /\ isCameraActive) =>
        /\ mediaStream \in liveStreams
        /\ streamFacing[mediaStream] = cameraMode

\* C9: no acquired stream has a running track after deactivation or teardown,
\* and after a switch none but the stream held.
C9_DeviceReleased ==
    /\ ~mounted => liveStreams = {}
    /\ (mounted /\ ~isCameraActive) => liveStreams = {}
    /\ (mounted /\ isCameraActive) => liveStreams \subseteq {mediaStream}

\* C10: the end of a recognition attempt that raised onerror schedules no
\* restart.
C10_NoRestartAfterError == ~Did("restart-after-error")

\* C11: a restart timer that fires after the component was unmounted does
\* not call start().
C11_NoRestartAfterTeardown == ~mounted => ~Did("auto-start")

\* C12: at the instant an auto-restart calls start(), the camera is active
\* and the microphone permission is granted.
C12_RestartOnlyWhileReady ==
    [][Did("auto-start")' => (isCameraActive /\ microphonePermission = "granted")]_vars

\* a recogniser whose start() was called and which has delivered neither a
\* result nor an error nor its end: it can still deliver a transcript
Live(r) == r.state \in {"started", "listening", "stopping"}

LiveAttempts ==
    (IF Live(recognitionRef) THEN 1 ELSE 0)
    + Cardinality({i \in 1..Len(detached) : Live(detached[i])})

\* C13: at most one recognition attempt is live.
C13_OneLiveAttempt == LiveAttempts <= 1

\* the query in flight belongs to a turn that is no longer the current one:
\* the component was unmounted, or a newer turn has cleared or replaced the
\* question
Superseded ==
    \/ ~mounted
    \/ \E i \in 1..Len(pendingFetch) : pendingFetch[i].question # currentQuestion

\* C14: a query result that arrives after its turn was superseded or after
\* the component was unmounted changes neither the last answer nor the last
\* error and hands no utterance to the engine.
C14_LateResultDiscarded ==
    [][(FetchSettles /\ Superseded) =>
          /\ assistantResponse' = assistantResponse
          /\ error' = error
          /\ synthQueue' = synthQueue]_vars

\* a turn is past the acceptance of its transcript: its acknowledgement is
\* being spoken or its query is in flight
Acknowledging == Acks(synthQueue) \cup Acks(synthCancelled) # {}

Analyzing == pendingFetch # <<>>

\* C16: while a turn is acknowledging its transcript or analyzing, the
\* recogniser is not listening for another question and no second turn is
\* past acceptance.
C16_NoOverlap ==
    (Acknowledging \/ Analyzing) =>
        /\ recognitionRef.state \notin {"started", "listening"}
        /\ Len(pendingFetch) + Cardinality(Acks(synthQueue) \cup Acks(synthCancelled)) <= 1

\* C17: startListening while a turn is active (listening or processing)
\* leaves no live recognition attempt and no utterance in the engine.
C17_BeginTurnCancels ==
    [][(StartListening /\ hasSpeechRecognition /\ microphonePermission = "granted"
          /\ isCameraActive /\ (isListening \/ isProcessing)) =>
          /\ recognitionRef'.state \notin {"started", "listening"}
          /\ synthQueue' = <<>>]_vars

\* the listening prompt is in the engine, pending or playing
PromptActive ==
    \E i \in 1..Len(synthQueue) : synthQueue[i].cb.kind = "prompt"

\* C18: start() is not called while the listening prompt is pending or
\* playing.
C18_StartOnlyAfterPrompt == Did("start") => ~PromptActive

\* C19: when the watchdog fires while the speaking flag is set, it resets
\* the flag.
C19_WatchdogResets == [][(WatchdogTimer /\ isSpeaking) => ~isSpeaking']_vars

\* C20: a speak(text, cb) made while speech output is disabled, or with a
\* blank text, or while the microphone permission is not granted, leaves the
\* engine untouched and has run cb when it returns.
C20_SuppressedSpeak ==
    [][(ClientSpeak /\ (\/ ~speechEnabled
                        \/ microphonePermission # "granted"
                        \/ \E e \in fx' : e.tag = "speak" /\ Trim(e.text) = <<>>)) =>
          /\ synthQueue' = synthQueue
          /\ synthCancelled' = synthCancelled
          /\ synthSpeaking' = synthSpeaking
          /\ \A id \in 1..MaxCalls :
                (fired[id] = -1 /\ fired'[id] # -1) => fired'[id] = 1]_vars

\* something other than the engine's signal for an utterance it holds can
\* still act on the turn: a speech timer, a cancelled utterance's event, the
\* recogniser, a restart timer or the query
TurnPending ==
    \/ speechTimeoutRef.kind \in {"retry", "watchdog"}
    \/ synthCancelled # <<>>
    \/ restartTimers > 0
    \/ recognitionRef.state \notin {"idle", "absent"}
    \/ detached # <<>>
    \/ pendingFetch # <<>>

\* C15: a turn in progress can always still return to Idle without the
\* engine signalling the completion of an utterance: while the processing
\* flag is set, a timer, the recogniser or the query is still to act.
C15_TurnResolves == (mounted /\ isProcessing) => TurnPending

\* the audio output is stopped: the engine holds no utterance, no speech
\* timer is pending, the speaking flag is down and no utterance is referenced
AudioStopped ==
    /\ synthQueue = <<>>
    /\ ~synthSpeaking
    /\ speechTimeoutRef = NoTimer
    /\ ~isSpeaking
    /\ ~utteranceRef

\* C21: stopSpeaking in any state leaves the audio output stopped (no
\* utterance in the engine, speaking flag down, no referenced utterance, no
\* pending speech timer), and called when the output is already stopped it
\* changes nothing: no state, no callback run, no event owed.
C21_StopIdempotent ==
    [][StopSpeaking =>
          /\ AudioStopped'
          /\ AudioStopped =>
                UNCHANGED <<synthCancelled, fired, handed, error, isProcessing,
                            isListening, recognitionRef, announceTimer,
                            speechEnabled, microphonePermission>>]_vars

\* C21's case: stopSpeaking has cancelled an utterance of the engine, whose
\* event is owed, and has left the output stopped
C21_Witness == Did("stop") /\ synthCancelled # <<>> /\ AudioStopped

\* C22: the camera-stop operation (toggleCamera, the only operation that
\* stops the camera) invoked while no capture session is active changes
\* nothing: it requests no device, acquires no stream and records no error.
C22_CameraStopIdempotent ==
    [][(ToggleCamera /\ ~isCameraActive) =>
          UNCHANGED <<isCameraActive, mediaStream, liveStreams, pendingMedia,
                      videoSrc, capturedImage, error>>]_vars

\* the recogniser has just delivered a transcript of trimmed length 2 or less
ShortResult == \E e \in fx : e.tag = "result" /\ Len(Trim(e.text)) <= 2

\* C23: a transcript shorter than the minimum length, delivered to a turn in
\* progress, is answered by the didn't-catch-that message and does not end
\* the turn: the processing flag stays set.
C23_ShortTranscriptKeepsTurn ==
    [][(RecognitionResult /\ isProcessing /\ ShortResult') =>
          (Spoke(MsgDidntCatch)' /\ isProcessing')]_vars

\* the answer of a query is in the engine, pending or playing
AnswerActive == \E i \in 1..Len(synthQueue) : synthQueue[i].text \in Answers

\* C24: the turn does not end before its answer has been spoken: when the
\* query of a turn in progress settles and its answer is handed to the
\* engine, the processing flag stays set.
C24_TurnEndsAfterSpeech ==
    [][(FetchSettles /\ isProcessing /\ AnswerActive') => isProcessing']_vars

\* C25: when processQuestion gets no frame (camera inactive, no video element
\* or no frame yet), an explanation is recorded as the error and spoken, the
\* processing flag is reset, and no query is made.
C25_CaptureFailureAborts ==
    (mounted /\ Did("no-frame")) =>
        /\ error \in {MsgCameraNotActive, MsgCaptureFailed}
        /\ Spoke(error)
        /\ ~isProcessing
        /\ ~Did("query")

\* C25's case: a question was accepted with the camera on but no frame to
\* capture
C25_Witness ==
    /\ mounted
    /\ Did("no-frame")
    /\ Did("capture")
    /\ error = MsgCaptureFailed

\* the feed has not produced a frame of nonzero dimensions, or there is no
\* video or canvas element
NotReady == currentPage # "camera" \/ readyState < 2 \/ videoWidth = 0

\* C26 (as stated): captureImage fails exactly when there is no video or
\* canvas element or the feed has no frame of nonzero dimensions yet
\* (readyState below 2 or width 0), and gives the image of the bound stream
\* otherwise.
C26_CaptureFailsOnlyWhenNotReady ==
    [][Did("capture")' =>
          IF NotReady
          THEN Did("no-frame")' /\ ~Did("query")'
          ELSE Did("query")' /\ capturedImage' = videoSrc]_vars

\* C26 (amended): captureImage fails exactly when there is no video or canvas
\* element, or the feed has no frame of nonzero dimensions yet, or the canvas
\* gives no 2D context, and gives the image of the bound stream otherwise.
C26_CaptureFailsWithoutFrameOrContext ==
    [][Did("capture")' =>
          IF NotReady \/ ~canvasContext
          THEN Did("no-frame")' /\ ~Did("query")'
          ELSE Did("query")' /\ capturedImage' = videoSrc]_vars

\* C26's case: the camera is started (its stream is live and bound to the
\* video element), the element has the metadata but no frame yet, and a
\* capture has failed
C26_Witness ==
    /\ Did("capture")
    /\ Did("no-frame")
    /\ isCameraActive
    /\ videoSrc = mediaStream
    /\ videoSrc \in liveStreams
    /\ readyState = 1
    /\ canvasContext

\* the message of the first precondition of a turn that fails, Null when
\* none does
Refusal ==
    IF ~hasSpeechRecognition THEN MsgNotSupported
    ELSE IF microphonePermission # "granted" THEN MsgMicRequired
    ELSE IF ~isCameraActive THEN MsgCameraFirst
    ELSE Null

Raised == {e.text[1] : e \in {x \in fx : x.tag = "recognition-error"}}

\* C28: a recognition error sets the microphone permission state to denied
\* when its code is not-allowed or service-not-allowed, and leaves the
\* permission state as it was for every other code.
C28_DeniedOnlyWhenNotAllowed ==
    [][((RecognitionError \/ DetachedError) /\ mounted) =>
          \A code \in Raised' :
             IF code \in {"not-allowed", "service-not-allowed"}
             THEN microphonePermission' = "denied"
             ELSE microphonePermission' = microphonePermission]_vars

\* C28's case: the recogniser has failed with service-not-allowed while the
\* permission was granted
C28_Witness ==
    /\ Raised = {"service-not-allowed"}
    /\ microphonePermission = "denied"
    /\ permission = "granted"

\* C29: a recognition error hands a message to speak exactly when its code
\* is neither no-speech nor aborted, the message being the one it records as
\* the error; for every code it resets the processing flag and the listening
\* flag.
C29_ErrorAnnounced ==
    [][((RecognitionError \/ DetachedError) /\ mounted) =>
          \A code \in Raised' :
             /\ Did("speak")' <=> code \notin {"no-speech", "aborted"}
             /\ Did("speak")' => Spoke(error)'
             /\ ~isProcessing'
             /\ ~isListening']_vars

\* C29's case: the recogniser of a turn has failed with no-speech, which is
\* recorded and not spoken
C29_Witness ==
    /\ Raised = {"no-speech"}
    /\ error = MsgNoSpeech
    /\ ~Did("speak")
    /\ ~isProcessing

\* the text m contains the text part
Carries(m, part) ==
    \E i \in 0..(Len(m) - Len(part)) : SubSeq(m, i + 1, i + Len(part)) = part

\* what the last step observed under a tag
Seen(tag) == {e.text : e \in {x \in fx : x.tag = tag}}

\* C30: the outcome of a query that was sent is a transport failure whose
\* message carries the upstream status and the upstream error text when the
\* response is not 2xx, the invalid-response failure when the response is
\* 2xx and has no answer, and otherwise the answer, which is exactly the
\* upstream answer text.
C30_QueryOutcome ==
    /\ \A m \in Seen("transport") :
          /\ \A status \in Seen("status") : Carries(m, status)
          /\ \A text \in Seen("upstream-error") : Carries(m, text)
    /\ \A m \in Seen("malformed") :
          /\ m = MsgInvalidResponse
          /\ Seen("upstream-answer") \subseteq {Null}
    /\ \A m \in Seen("answer") :
          /\ Seen("status") = {<<"200">>}
          /\ Seen("upstream-answer") = {m}

\* C31: a request to the vision service is sent only by a processQuestion
\* that has a credential, one request for its one question; the settling of
\* a request, whatever its outcome, sends no request.
C31_OneRequestPerTurn ==
    [][/\ Len(pendingFetch') > Len(pendingFetch) =>
            /\ Len(pendingFetch') = Len(pendingFetch) + 1
            /\ apiKey
            /\ Seen("query")' = {pendingFetch'[Len(pendingFetch')].question}
       /\ FetchSettles => Len(pendingFetch') < Len(pendingFetch)
       /\ ~apiKey => pendingFetch' = <<>>]_vars

\* C31's case: a question was accepted and handed to the query without a
\* credential
C31_Witness ==
    /\ ~apiKey
    /\ Did("query")
    /\ error = MsgNoKey
    /\ pendingFetch = <<>>

\* the utterance u acknowledges the question q
AckOf(u, q) == u.cb.kind = "ack" /\ u.cb.arg = q

\* C32: the frame of a question is captured in the step that delivers the
\* end (or the cancellation) of that question's acknowledgement, or in the
\* result step itself when the acknowledgement is silent; the query is made
\* in the step of the capture, with the frame just captured and that
\* question; an answer is spoken only in the step that settles a request.
C32_TurnInOrder ==
    [][/\ \A q \in Seen("capture")' :
            /\ \/ SynthEnd /\ AckOf(Head(synthQueue), q)
               \/ SynthCancelled /\ AckOf(Head(synthCancelled), q)
               \/ /\ RecognitionResult
                  /\ currentQuestion' = q
                  /\ synthQueue' = synthQueue
                  /\ synthCancelled' = synthCancelled
            /\ Did("query")' =>
                  /\ Seen("query")' = {q}
                  /\ capturedImage' = videoSrc
                  /\ apiKey =>
                        LET r == pendingFetch'[Len(pendingFetch')]
                        IN  r.question = q /\ r.image = capturedImage'
       /\ Did("query")' => Did("capture")'
       /\ \A a \in Seen("answer")' :
            /\ FetchSettles
            /\ Len(pendingFetch') = Len(pendingFetch) - 1
            /\ Spoke(a)'
            /\ assistantResponse' = a]_vars

\* C32's case: a turn went through its steps up to the spoken answer
C32_Witness ==
    /\ Did("answer")
    /\ assistantResponse \in Answers
    /\ currentQuestion # Null
    /\ capturedImage # 0
    /\ capturedImage = videoSrc
    /\ AnswerActive

\* the four kinds of failure of a camera start, by the name of the error
\* toggleCamera catches
StartFailures == {"NotAllowedError", "NotFoundError", "NotReadableError", "TypeError"}

\* the names of the errors caught by toggleCamera in the last step
Refused == {e[1] : e \in Seen("camera-error")}

\* C33: a step in which a camera start fails records the message of the
\* failure in error and hands it to speak, leaves the session as it was
\* (when it was inactive: inactive, no stream held, none bound to the video,
\* no track started), and the messages of the four kinds of failure are
\* pairwise distinct.
C33_StartFailure ==
    [][\A name \in Refused' :
          /\ error' = CameraErrorMessage(name)
          /\ Spoke(CameraErrorMessage(name))'
          /\ UNCHANGED <<isCameraActive, mediaStream, videoSrc, liveStreams>>
          /\ ~isCameraActive =>
                ~isCameraActive' /\ mediaStream' = 0 /\ videoSrc' = 0
          /\ Cardinality({CameraErrorMessage(k) : k \in StartFailures}) = 4]_vars

\* C33's case: the device was busy when the camera was started
C33_Witness ==
    /\ Refused = {"NotReadableError"}
    /\ error = CameraErrorMessage("NotReadableError")
    /\ ~isCameraActive
    /\ mediaStream = 0

\* C34: the watchdog armed for a text of n characters waits 5000 ms when
\* n <= 50 and 100 * n ms when n > 50, so never less than 5000 ms.
C34_WatchdogDelay ==
    speechTimeoutRef.kind = "watchdog" =>
        LET n == Length(speechTimeoutRef.text)
            d == speechTimeoutRef.delay
        IN  /\ d >= 5000
            /\ n <= 50 => d = 5000
            /\ n > 50 => d = 100 * n

\* C34's case: the watchdog of the listening prompt, 57 characters long
C34_Witness ==
    /\ speechTimeoutRef.kind = "watchdog"
    /\ speechTimeoutRef.text = MsgListening
    /\ Length(speechTimeoutRef.text) = 57
    /\ speechTimeoutRef.delay = 5700

\* C35: a frame is captured only while the processing flag is set, and the
\* flag is set as long as a vision query is in flight.
C35_NoIdleQuery ==
    [][/\ Did("capture")' => isProcessing
       /\ pendingFetch' # <<>> => isProcessing']_vars

\* C36: the cached microphone permission, once Denied, leaves Denied only in
\* a step in which the platform pushes a permission change.
C36_DeniedStays ==
    [][(microphonePermission = "denied" /\ microphonePermission' # "denied") =>
          PermissionChanges]_vars

\* C37: whenever no acquisition is pending, every stream with running tracks
\* is the stream recorded in mediaStream (so there is at most one).
C37_OneLiveStream ==
    (mounted /\ pendingMedia = <<>>) => liveStreams \subseteq {mediaStream}

\* what the stop branch of startListening (lines 446-452) does and leaves
StopsOnly ==
    /\ ~Did("speak")'
    /\ ~Did("start")'
    /\ recognitionRef' = Stopped(recognitionRef)
    /\ ~isProcessing'
    /\ UNCHANGED <<currentQuestion, assistantResponse, error>>

C39_TurnStartsClean ==
    [][/\ (StartListening /\ Refusal = Null /\ ~isListening /\ ~isProcessing) =>
            /\ isProcessing'
            /\ currentQuestion' = Null
            /\ assistantResponse' = Null
            /\ error' = Null
            /\ Spoke(MsgListening)'
       /\ currentQuestion' = Null => assistantResponse' = Null]_vars
====
